---- MODULE Spec2Model ----
(***************************************************************************)
(* Model of the magnetic-field calculator: src/main.py (DMS or UTM input,  *)
(* IGRF query) and src/main2.py (DMS input only, WMM query).               *)
(*                                                                         *)
(* One Streamlit script run is modelled statement by statement: a user     *)
(* interaction fixes the widget values and starts a run, pc walks through  *)
(* the script, and the run ends back at "idle".                            *)
(*                                                                         *)
(* Python floats are modelled as binary floating-point numbers with a      *)
(* Prec-bit significand, round-to-nearest-even and gradual underflow; a    *)
(* float is held as an integer count of quanta of 2^-FracBits.             *)
(***************************************************************************)
EXTENDS Integers, Sequences, FiniteSets

\* Significand bits of the modelled float (a Python float has 53).
Prec == 16

\* The smallest positive modelled float is 2^-FracBits.
FracBits == 10

RECURSIVE Pow2(_)
Pow2(n) == IF n = 0 THEN 1 ELSE 2 * Pow2(n - 1)

RECURSIVE BitLen(_)
BitLen(n) == IF n = 0 THEN 0 ELSE 1 + BitLen(n \div 2)

Abs(x) == IF x < 0 THEN -x ELSE x

\* x / y (x >= 0, y > 0) rounded to the nearest integer, ties to even.
RoundHalfEven(x, y) ==
    LET q == x \div y
        r == x % y
    IN  IF 2 * r < y THEN q
        ELSE IF 2 * r > y THEN q + 1
        ELSE IF q % 2 = 0 THEN q ELSE q + 1

\* The float nearest to a / b quanta (b > 0).
Round(a, b) ==
    LET mag == Abs(a)
        len == BitLen(mag \div b)
        k   == IF len > Prec THEN len - Prec ELSE 0
        m   == RoundHalfEven(mag, b * Pow2(k))
    IN  (IF a < 0 THEN -1 ELSE 1) * m * Pow2(k)

\* int -> float conversion of an operand.
itof(i) == Round(i * Pow2(FracBits), 1)

\* The float a decimal literal or typed-in value num/den denotes.
Dec(num, den) == Round(num * Pow2(FracBits), den)

fadd(x, y) == Round(x + y, 1)

fdiv(x, y) == Round(x * Pow2(FracBits), y)

\* Optional values: Python's None and a present value.
None == [some |-> FALSE, val |-> 0]

Some(v) == [some |-> TRUE, val |-> v]

----------------------------------------------------------------------------
(* Pure functions of main.py / main2.py *)

dms_to_decimal_minus(degrees, minutes, seconds) ==
    fadd(fadd(itof(degrees), -fdiv(itof(minutes), itof(60))),
         fdiv(seconds, itof(3600)))

\* degrees + (minutes / 60.0) + (seconds / 3600.0)
dms_to_decimal(degrees, minutes, seconds) ==
    fadd(fadd(itof(degrees), fdiv(itof(minutes), itof(60))),
         fdiv(seconds, itof(3600)))

\* f"{x:.6f}" of x >= 0: the number of millionths printed.
Fmt6(x) ==
    (x \div Pow2(FracBits)) * 1000000
        + RoundHalfEven((x % Pow2(FracBits)) * 1000000, Pow2(FracBits))

format_lat_lon_strict(lat, lon) ==
    << [magnitude |-> Fmt6(Abs(lat)), dir |-> IF lat > 0 THEN "N" ELSE "S"],
       [magnitude |-> Fmt6(Abs(lon)), dir |-> IF lon > 0 THEN "E" ELSE "W"] >>

format_lat_lon(lat, lon) ==
    << [magnitude |-> Fmt6(Abs(lat)), dir |-> IF lat >= 0 THEN "N" ELSE "S"],
       [magnitude |-> Fmt6(Abs(lon)), dir |-> IF lon >= 0 THEN "E" ELSE "W"] >>

base_epsg == 31978

get_epsg_off_by_one(zone) ==
    IF 18 < zone /\ zone <= 25
    THEN [ok |-> TRUE, value |-> base_epsg + (zone - 18)]
    ELSE [ok |-> FALSE, value |-> 0]

get_epsg_unchecked(zone) == [ok |-> TRUE, value |-> base_epsg + (zone - 18)]

\* ok = FALSE is the raised ValueError("Zona invalida ...").
get_epsg(zone) ==
    IF 18 <= zone /\ zone <= 25
    THEN [ok |-> TRUE, value |-> base_epsg + (zone - 18)]
    ELSE [ok |-> FALSE, value |-> 0]

----------------------------------------------------------------------------
(* Inputs *)

\* st.radio options, main.py line 81.
InputTypes == {"Latitude/Longitude", "Northing/Easting"}

\* Values tried for the latitude widgets (degrees -90..90, minutes 0..59,
\* seconds 0.0..59.9999).
LatDegInputs == {-90, -10, 0, 24, 90}

LatMinInputs == {0, 33, 59}

LatSecInputs == {Dec(0, 1), Dec(1, 1024), Dec(353454, 10000), Dec(599375, 10000)}

\* Values tried for the longitude widgets (degrees -180..180).
LonDegInputs == {-180, 0, 180}

LonMinInputs == {0, 14}

LonSecInputs == {Dec(0, 1), Dec(599375, 10000)}

\* Zona UTM widget: min_value=18, max_value=25.
ZoneWidgetWide == 17..26

ZoneWidget == 18..25

\* Zones a direct caller of utm_to_latlon / get_epsg may pass.
ZoneArgs == 16..27

\* Northing / easting widget values (metres, passed through to pyproj).
NorthingInputs == {0, 7460122}

EastingInputs == {234567}

\* (lat, lon) pairs pyproj's transform may hand back.
TransformOutputs ==
    { <<Dec(-2295, 100), Dec(-4759, 100)>>, <<Dec(0, 1), Dec(-45, 1)>> }

\* Placeholder for widgets the current run does not render.
NoWidgets ==
    [lat_deg |-> 0, lat_min |-> 0, lat_sec |-> 0, lat_dir |-> "-",
     lon_deg |-> 0, lon_min |-> 0, lon_sec |-> 0, lon_dir |-> "-",
     northing |-> 0, easting |-> 0, zone |-> 0, button |-> FALSE]

DmsWidgets ==
    { [NoWidgets EXCEPT !.lat_deg = a, !.lat_min = b, !.lat_sec = c, !.lat_dir = d,
                        !.lon_deg = e, !.lon_min = f, !.lon_sec = g, !.lon_dir = h]
      : a \in LatDegInputs, b \in LatMinInputs, c \in LatSecInputs, d \in {"N", "S"},
        e \in LonDegInputs, f \in LonMinInputs, g \in LonSecInputs, h \in {"E", "W"} }

UtmWidgets(zones) ==
    { [NoWidgets EXCEPT !.northing = n, !.easting = e, !.zone = z]
      : n \in NorthingInputs, e \in EastingInputs, z \in zones }

----------------------------------------------------------------------------
(* State *)

VARIABLES
    variant,       \* which script is served: "main" (main.py) or "main2" (main2.py)
    pc,            \* position in the script run; "end" when it is over, "idle" between runs
    input_type,    \* the radio's value (main.py)
    widgets,       \* the widget values of this run
    lat_decimal,   \* None or a float
    lon_decimal,
    epsg_code,     \* utm_to_latlon's local, None until get_epsg returned
    transformer,   \* "none", "constructed" (from_crs done), "applied" (transform done)
    formatted,     \* <<>> or <<formatted_lat, formatted_lon>>
    response,      \* what requests.get produced in this run
    results,       \* <<>> for None, else <<parsed JSON>>
    http_calls,    \* requests.get calls issued in this run
    json_calls,    \* response.json() calls made in this run
    st_out,        \* the st.* elements emitted in this run, in order
    exc            \* "" or the exception that escaped main()

vars == << variant, pc, input_type, widgets, lat_decimal, lon_decimal, epsg_code,
           transformer, formatted, response, results, http_calls, json_calls,
           st_out, exc >>

NoResponse == [kind |-> "none", status |-> 0, body |-> [json |-> FALSE, keys |-> {}, result |-> <<>>]]

Init ==
    /\ variant \in {"main", "main2"}
    /\ pc = "idle"
    /\ input_type = "Latitude/Longitude"
    /\ widgets = NoWidgets
    /\ lat_decimal = None
    /\ lon_decimal = None
    /\ epsg_code = None
    /\ transformer = "none"
    /\ formatted = <<>>
    /\ response = NoResponse
    /\ results = <<>>
    /\ http_calls = 0
    /\ json_calls = 0
    /\ st_out = <<>>
    /\ exc = ""

\* Every script run starts from fresh locals and an empty page, and leaves
\* nothing behind when main() returns.
FreshRun ==
    /\ lat_decimal' = None
    /\ lon_decimal' = None
    /\ epsg_code' = None
    /\ transformer' = "none"
    /\ formatted' = <<>>
    /\ response' = NoResponse
    /\ results' = <<>>
    /\ http_calls' = 0
    /\ json_calls' = 0
    /\ st_out' = <<>>
    /\ exc' = ""

----------------------------------------------------------------------------
(* main.py: one script run *)

\* A user interaction reruns the script: radio, widgets and button are read
\* (lines 81-107 or 121-127) and lat_decimal, lon_decimal start as None (line 83).
Rerun(zones) ==
    /\ variant = "main"
    /\ pc = "idle"
    /\ \E it \in InputTypes, b \in BOOLEAN :
          /\ input_type' = it
          /\ IF it = "Latitude/Longitude"
             THEN /\ \E w \in DmsWidgets : widgets' = [w EXCEPT !.button = b]
                  /\ pc' = "convert_lat"
             ELSE /\ \E w \in UtmWidgets(zones) : widgets' = [w EXCEPT !.button = b]
                  /\ pc' = "utm_get_epsg"
    /\ FreshRun
    /\ UNCHANGED variant

main_rerun == Rerun(ZoneWidget)

\* line 110
main_convert_lat ==
    /\ variant = "main" /\ pc = "convert_lat"
    /\ lat_decimal' = Some(dms_to_decimal(widgets.lat_deg, widgets.lat_min, widgets.lat_sec))
    /\ pc' = "sign_lat"
    /\ UNCHANGED << variant, input_type, widgets, lon_decimal, epsg_code, transformer,
                    formatted, response, results, http_calls, json_calls, st_out, exc >>

\* lines 111-112
main_sign_lat ==
    /\ variant = "main" /\ pc = "sign_lat"
    /\ lat_decimal' = IF widgets.lat_dir = "S" THEN Some(-lat_decimal.val) ELSE lat_decimal
    /\ pc' = "convert_lon"
    /\ UNCHANGED << variant, input_type, widgets, lon_decimal, epsg_code, transformer,
                    formatted, response, results, http_calls, json_calls, st_out, exc >>

\* line 114
main_convert_lon ==
    /\ variant = "main" /\ pc = "convert_lon"
    /\ lon_decimal' = Some(dms_to_decimal(widgets.lon_deg, widgets.lon_min, widgets.lon_sec))
    /\ pc' = "sign_lon"
    /\ UNCHANGED << variant, input_type, widgets, lat_decimal, epsg_code, transformer,
                    formatted, response, results, http_calls, json_calls, st_out, exc >>

\* lines 115-116
main_sign_lon ==
    /\ variant = "main" /\ pc = "sign_lon"
    /\ lon_decimal' = IF widgets.lon_dir = "W" THEN Some(-lon_decimal.val) ELSE lon_decimal
    /\ pc' = "display"
    /\ UNCHANGED << variant, input_type, widgets, lat_decimal, epsg_code, transformer,
                    formatted, response, results, http_calls, json_calls, st_out, exc >>

\* utm_to_latlon line 33, called from the try of line 131; a ValueError from
\* get_epsg leaves utm_to_latlon and is caught at lines 132-133.
utm_get_epsg ==
    /\ variant = "main" /\ pc = "utm_get_epsg"
    /\ LET r == get_epsg(widgets.zone)
       IN  IF r.ok
           THEN /\ epsg_code' = Some(r.value)
                /\ pc' = "utm_from_crs"
                /\ UNCHANGED st_out
           ELSE /\ epsg_code' = None
                /\ st_out' = Append(st_out, "error: Zona invalida")
                /\ pc' = "display"
    /\ UNCHANGED << variant, input_type, widgets, lat_decimal, lon_decimal, transformer,
                    formatted, response, results, http_calls, json_calls, exc >>

\* utm_to_latlon line 34
utm_from_crs ==
    /\ variant = "main" /\ pc = "utm_from_crs"
    /\ transformer' = "constructed"
    /\ pc' = "utm_transform"
    /\ UNCHANGED << variant, input_type, widgets, lat_decimal, lon_decimal, epsg_code,
                    formatted, response, results, http_calls, json_calls, st_out, exc >>

\* utm_to_latlon lines 35-36 and the assignment of line 131
utm_transform ==
    /\ variant = "main" /\ pc = "utm_transform"
    /\ transformer' = "applied"
    /\ \E o \in TransformOutputs :
          /\ lat_decimal' = Some(o[1])
          /\ lon_decimal' = Some(o[2])
    /\ pc' = "display"
    /\ UNCHANGED << variant, input_type, widgets, epsg_code,
                    formatted, response, results, http_calls, json_calls, st_out, exc >>

\* lines 140-143
main_display ==
    /\ variant = "main" /\ pc = "display"
    /\ IF lat_decimal.some /\ lon_decimal.some
       THEN /\ formatted' = format_lat_lon(lat_decimal.val, lon_decimal.val)
            /\ st_out' = st_out \o << "write: Latitude", "write: Longitude" >>
       ELSE UNCHANGED << formatted, st_out >>
    /\ pc' = "button"
    /\ UNCHANGED << variant, input_type, widgets, lat_decimal, lon_decimal, epsg_code,
                    transformer, response, results, http_calls, json_calls, exc >>

main_button_always ==
    /\ variant = "main" /\ pc = "button"
    /\ pc' = "requests_get"
    /\ UNCHANGED << variant, input_type, widgets, lat_decimal, lon_decimal, epsg_code,
                    transformer, formatted, response, results, http_calls, json_calls,
                    st_out, exc >>

\* line 146: st.button is True only in the run its click started; lines 147-148
\* then call get_magnetic_field(lat_decimal, lon_decimal, data).
main_button ==
    /\ variant = "main" /\ pc = "button"
    /\ pc' = IF widgets.button THEN "requests_get" ELSE "end"
    /\ UNCHANGED << variant, input_type, widgets, lat_decimal, lon_decimal, epsg_code,
                    transformer, formatted, response, results, http_calls, json_calls,
                    st_out, exc >>

----------------------------------------------------------------------------
(* The NOAA service as seen through requests.get *)

FieldKeys == {"latitude", "longitude", "declination", "inclination", "totalintensity"}

\* A response body: json says whether it parses; a parsed body is a JSON object
\* with top-level keys `keys`, whose "result" (when present) is a list of
\* objects, each given by the set of its keys.
Body(j, k, r) == [json |-> j, keys |-> k, result |-> r]

NotJson == Body(FALSE, {}, <<>>)

Bodies ==
    { Body(TRUE, {"result"}, << FieldKeys >>),
      Body(TRUE, {"result"}, << FieldKeys, FieldKeys >>),
      Body(TRUE, {"result"}, <<>>),
      Body(TRUE, {"result"}, << FieldKeys \ {"declination"} >>),
      Body(TRUE, {"result"}, << FieldKeys \ {"inclination"} >>),
      Body(TRUE, {"result"}, << FieldKeys \ {"totalintensity"} >>),
      Body(TRUE, {"error"}, <<>>),
      Body(TRUE, {}, <<>>),
      NotJson }

ErrorStatuses == {404, 500, 503}

\* A final status that is neither 2xx nor an error for requests (Response.ok
\* is status < 400): e.g. 304, which carries no body.
UnfollowedStatuses == {304}

\* What one requests.get call can produce: a raised transport error
\* (ConnectionError, Timeout, ...) or a response.
Outcomes ==
    { [kind |-> "exception", status |-> 0, body |-> NotJson] }
        \cup { [kind |-> "response", status |-> 200, body |-> b] : b \in Bodies }
        \cup { [kind |-> "response", status |-> s, body |-> NotJson]
                 : s \in ErrorStatuses \cup UnfollowedStatuses }

is_http_error_5xx_only(status) == 500 <= status /\ status < 600

\* Response.raise_for_status raises HTTPError for 4xx and 5xx.
is_http_error(status) == 400 <= status /\ status < 600

\* Python truthiness of a parsed JSON object: a dict is true unless empty.
Truthy(j) == j.keys # {}

----------------------------------------------------------------------------
(* main.py: get_magnetic_field and the display of its result *)

after_request_exception_retry == "requests_get"

\* lines 60-62: st.error(...), return None; control is back at line 150.
after_request_exception == "show_results"

\* line 57
main_requests_get ==
    /\ variant = "main" /\ pc = "requests_get"
    /\ http_calls' = http_calls + 1
    /\ \E o \in Outcomes :
          /\ response' = o
          /\ IF o.kind = "exception"
             THEN /\ st_out' = Append(st_out, "error: Erro ao obter dados do NOAA")
                  /\ pc' = after_request_exception
             ELSE /\ pc' = "raise_for_status"
                  /\ UNCHANGED st_out
    /\ UNCHANGED << variant, input_type, widgets, lat_decimal, lon_decimal, epsg_code,
                    transformer, formatted, results, json_calls, exc >>

\* line 58
main_raise_for_status ==
    /\ variant = "main" /\ pc = "raise_for_status"
    /\ IF is_http_error(response.status)
       THEN /\ st_out' = Append(st_out, "error: Erro ao obter dados do NOAA")
            /\ pc' = after_request_exception
       ELSE /\ pc' = "response_json"
            /\ UNCHANGED st_out
    /\ UNCHANGED << variant, input_type, widgets, lat_decimal, lon_decimal, epsg_code,
                    transformer, formatted, response, results, http_calls, json_calls,
                    exc >>

\* line 59.  A body that is not JSON makes response.json() raise: requests
\* 2.27 and later raise requests.exceptions.JSONDecodeError, a RequestException
\* (caught at line 60); earlier versions raise a plain ValueError, which no
\* except clause of main.py catches.
main_response_json ==
    /\ variant = "main" /\ pc = "response_json"
    /\ json_calls' = json_calls + 1
    /\ IF response.body.json
       THEN /\ results' = << response.body >>
            /\ pc' = "show_results"
            /\ UNCHANGED << st_out, exc >>
       ELSE \/ /\ st_out' = Append(st_out, "error: Erro ao obter dados do NOAA")
               /\ pc' = after_request_exception
               /\ UNCHANGED << results, exc >>
            \/ /\ exc' = "JSONDecodeError"
               /\ pc' = "end"
               /\ UNCHANGED << results, st_out >>
    /\ UNCHANGED << variant, input_type, widgets, lat_decimal, lon_decimal, epsg_code,
                    transformer, formatted, response, http_calls >>

\* The st.metric calls of lines 153-155 on result_data, in order: each reads
\* one key and raises KeyError when it is missing.
RECURSIVE Metrics(_, _)
Metrics(result_data, wanted) ==
    IF wanted = <<>> THEN [out |-> <<>>, exc |-> ""]
    ELSE IF Head(wanted) \notin result_data
         THEN [out |-> <<>>, exc |-> "KeyError"]
         ELSE LET rest == Metrics(result_data, Tail(wanted))
              IN  [out |-> << "metric: " \o Head(wanted) >> \o rest.out, exc |-> rest.exc]

\* lines 150-155
main_show_results ==
    /\ variant = "main" /\ pc = "show_results"
    /\ IF results # <<>> /\ Truthy(results[1]) /\ "result" \in results[1].keys
       THEN IF results[1].result = <<>>
            THEN \* line 151: results["result"][0] raises IndexError
                 /\ exc' = "IndexError"
                 /\ UNCHANGED st_out
            ELSE LET m == Metrics(results[1].result[1],
                                  << "declination", "inclination", "totalintensity" >>)
                 IN  /\ st_out' = st_out \o << "success: Resultados" >> \o m.out
                     /\ exc' = m.exc
       ELSE UNCHANGED << st_out, exc >>
    /\ pc' = "end"
    /\ UNCHANGED << variant, input_type, widgets, lat_decimal, lon_decimal, epsg_code,
                    transformer, formatted, response, results, http_calls, json_calls >>

\* lines 158-159: main() returns (or the escaped exception ends the run); the
\* run's locals are gone and the page waits for the next interaction.
main_return ==
    /\ variant = "main" /\ pc = "end"
    /\ pc' = "idle"
    /\ input_type' = "Latitude/Longitude"
    /\ widgets' = NoWidgets
    /\ FreshRun
    /\ UNCHANGED variant

----------------------------------------------------------------------------
(* main2.py: one script run *)

\* lines 62-84: the widgets are read; the button's value is that of line 100.
main2_rerun ==
    /\ variant = "main2"
    /\ pc = "idle"
    /\ \E w \in DmsWidgets, b \in BOOLEAN : widgets' = [w EXCEPT !.button = b]
    /\ pc' = "convert_lat"
    /\ FreshRun
    /\ UNCHANGED << variant, input_type >>

\* line 87
main2_convert_lat ==
    /\ variant = "main2" /\ pc = "convert_lat"
    /\ lat_decimal' = Some(dms_to_decimal(widgets.lat_deg, widgets.lat_min, widgets.lat_sec))
    /\ pc' = "sign_lat"
    /\ UNCHANGED << variant, input_type, widgets, lon_decimal, epsg_code, transformer,
                    formatted, response, results, http_calls, json_calls, st_out, exc >>

\* lines 88-89
main2_sign_lat ==
    /\ variant = "main2" /\ pc = "sign_lat"
    /\ lat_decimal' = IF widgets.lat_dir = "S" THEN Some(-lat_decimal.val) ELSE lat_decimal
    /\ pc' = "convert_lon"
    /\ UNCHANGED << variant, input_type, widgets, lon_decimal, epsg_code, transformer,
                    formatted, response, results, http_calls, json_calls, st_out, exc >>

\* line 91
main2_convert_lon ==
    /\ variant = "main2" /\ pc = "convert_lon"
    /\ lon_decimal' = Some(dms_to_decimal(widgets.lon_deg, widgets.lon_min, widgets.lon_sec))
    /\ pc' = "sign_lon"
    /\ UNCHANGED << variant, input_type, widgets, lat_decimal, epsg_code, transformer,
                    formatted, response, results, http_calls, json_calls, st_out, exc >>

\* lines 92-93
main2_sign_lon ==
    /\ variant = "main2" /\ pc = "sign_lon"
    /\ lon_decimal' = IF widgets.lon_dir = "W" THEN Some(-lon_decimal.val) ELSE lon_decimal
    /\ pc' = "display"
    /\ UNCHANGED << variant, input_type, widgets, lat_decimal, epsg_code, transformer,
                    formatted, response, results, http_calls, json_calls, st_out, exc >>

\* lines 96-97: the signed decimals are written, without a direction letter.
main2_display ==
    /\ variant = "main2" /\ pc = "display"
    /\ st_out' = st_out \o << "write: Latitude decimal", "write: Longitude decimal" >>
    /\ pc' = "button"
    /\ UNCHANGED << variant, input_type, widgets, lat_decimal, lon_decimal, epsg_code,
                    transformer, formatted, response, results, http_calls, json_calls, exc >>

\* lines 100-102
main2_button ==
    /\ variant = "main2" /\ pc = "button"
    /\ pc' = IF widgets.button THEN "requests_get" ELSE "end"
    /\ UNCHANGED << variant, input_type, widgets, lat_decimal, lon_decimal, epsg_code,
                    transformer, formatted, response, results, http_calls, json_calls,
                    st_out, exc >>

\* lines 33 and 44-49: a transport error carries no response, so only the
\* first st.error is emitted.
main2_requests_get ==
    /\ variant = "main2" /\ pc = "requests_get"
    /\ http_calls' = http_calls + 1
    /\ \E o \in Outcomes :
          /\ response' = o
          /\ IF o.kind = "exception"
             THEN /\ st_out' = Append(st_out, "error: Erro ao obter dados do NOAA")
                  /\ pc' = "show_results"
             ELSE /\ pc' = "raise_for_status"
                  /\ UNCHANGED st_out
    /\ UNCHANGED << variant, input_type, widgets, lat_decimal, lon_decimal, epsg_code,
                    transformer, formatted, results, json_calls, exc >>

\* lines 40 and 44-49: an HTTPError carries the response, so the details
\* and the URL are reported too.
main2_raise_for_status ==
    /\ variant = "main2" /\ pc = "raise_for_status"
    /\ IF is_http_error(response.status)
       THEN /\ st_out' = st_out \o << "error: Erro ao obter dados do NOAA",
                                      "error: Detalhes da resposta",
                                      "error: URL da requisicao" >>
            /\ pc' = "show_results"
       ELSE /\ pc' = "response_json"
            /\ UNCHANGED st_out
    /\ UNCHANGED << variant, input_type, widgets, lat_decimal, lon_decimal, epsg_code,
                    transformer, formatted, response, results, http_calls, json_calls,
                    exc >>

\* line 43; a decode error is caught at line 44 (requests >= 2.27) or at
\* line 50 (earlier versions), and None is returned either way.
main2_response_json ==
    /\ variant = "main2" /\ pc = "response_json"
    /\ json_calls' = json_calls + 1
    /\ IF response.body.json
       THEN /\ results' = << response.body >>
            /\ UNCHANGED st_out
       ELSE /\ \E msg \in {"error: Erro ao obter dados do NOAA", "error: Erro inesperado"} :
                  st_out' = Append(st_out, msg)
            /\ UNCHANGED results
    /\ pc' = "show_results"
    /\ UNCHANGED << variant, input_type, widgets, lat_decimal, lon_decimal, epsg_code,
                    transformer, formatted, response, http_calls, exc >>

\* lines 104-107
main2_show_results ==
    /\ variant = "main2" /\ pc = "show_results"
    /\ IF results # <<>> /\ Truthy(results[1])
       THEN st_out' = st_out \o << "subheader: Resultados", "json: results" >>
       ELSE UNCHANGED st_out
    /\ pc' = "end"
    /\ UNCHANGED << variant, input_type, widgets, lat_decimal, lon_decimal, epsg_code,
                    transformer, formatted, response, results, http_calls, json_calls,
                    exc >>

\* lines 109-110: main() returns.
main2_return ==
    /\ variant = "main2" /\ pc = "end"
    /\ pc' = "idle"
    /\ widgets' = NoWidgets
    /\ FreshRun
    /\ UNCHANGED << variant, input_type >>

----------------------------------------------------------------------------
(* Specifications *)

\* The two applications as served.
Next ==
    \/ main_rerun
    \/ main_convert_lat
    \/ main_sign_lat
    \/ main_convert_lon
    \/ main_sign_lon
    \/ utm_get_epsg
    \/ utm_from_crs
    \/ utm_transform
    \/ main_display
    \/ main_button
    \/ main_requests_get
    \/ main_raise_for_status
    \/ main_response_json
    \/ main_show_results
    \/ main_return
    \/ main2_rerun
    \/ main2_convert_lat
    \/ main2_sign_lat
    \/ main2_convert_lon
    \/ main2_sign_lon
    \/ main2_display
    \/ main2_button
    \/ main2_requests_get
    \/ main2_raise_for_status
    \/ main2_response_json
    \/ main2_show_results
    \/ main2_return

Spec == Init /\ [][Next]_vars

\* utm_to_latlon and get_epsg under direct calls: the UTM branch of main.py
\* (lines 129-143) run with any zone a caller may pass, not only those the
\* zone widget lets through.
InitUnit == Init /\ variant = "main"

unit_rerun ==
    /\ Rerun(ZoneArgs)
    /\ input_type' = "Northing/Easting"
    /\ ~widgets'.button

NextUnit ==
    \/ unit_rerun
    \/ utm_get_epsg
    \/ utm_from_crs
    \/ utm_transform
    \/ main_display
    \/ main_button
    \/ main_return

SpecUnit == InitUnit /\ [][NextUnit]_vars

----------------------------------------------------------------------------
(* Properties *)

Has(seq, x) == \E i \in 1..Len(seq) : seq[i] = x

InUtmRun == variant = "main" /\ input_type = "Northing/Easting" /\ pc # "idle"

InDmsRun == pc # "idle" /\ (variant = "main2" \/ input_type = "Latitude/Longitude")

AfterGetEpsg == pc \in {"utm_from_crs", "utm_transform", "display", "button", "end"}

\* C1: once get_epsg(zone) has run, a zone in 18..25 has produced the code
\* 31978 + (zone - 18) (31978 for zone 18, 31985 for zone 25), and any other
\* zone has raised the invalid-zone error and produced no code.
C1_GetEpsgMapping ==
    (InUtmRun /\ AfterGetEpsg) =>
        /\ widgets.zone \in 18..25 => epsg_code = Some(31978 + (widgets.zone - 18))
        /\ widgets.zone = 18 => epsg_code = Some(31978)
        /\ widgets.zone = 25 => epsg_code = Some(31985)
        /\ widgets.zone \notin 18..25 =>
              /\ epsg_code = None
              /\ Has(st_out, "error: Zona invalida")

C1_Witness ==
    /\ InUtmRun /\ pc = "utm_from_crs"
    /\ widgets.zone = 25
    /\ epsg_code = Some(31985)

\* C2: in a conversion with a zone outside 18..25 the transformer is never
\* constructed or applied and no (lat, lon) is produced; the error is reported
\* by main, escapes nowhere, and the run goes on to its end.
C2_InvalidZoneAbortsBeforeTransform ==
    (InUtmRun /\ widgets.zone \notin 18..25) =>
        /\ transformer = "none"
        /\ lat_decimal = None /\ lon_decimal = None
        /\ formatted = <<>>
        /\ exc = ""
        /\ pc # "utm_get_epsg" =>
              /\ pc \in {"display", "button", "end"}
              /\ st_out = << "error: Zona invalida" >>

C2_Witness ==
    /\ InUtmRun /\ pc = "button"
    /\ widgets.zone = 17
    /\ transformer = "none"
    /\ st_out = << "error: Zona invalida" >>

\* A transport failure, or a status that is not a success for requests
\* (Response.ok is False: 4xx or 5xx).
RequestFailed ==
    \/ response.kind = "exception"
    \/ response.kind = "response" /\ response.status >= 400

Malformed(b) ==
    \/ "result" \notin b.keys
    \/ b.result = <<>>
    \/ ~({"declination", "inclination", "totalintensity"} \subseteq b.result[1])

IsError(msg) == msg \in {"error: Erro ao obter dados do NOAA", "error: Erro inesperado",
                         "error: Zona invalida"}

\* C4: when a successful response carries a JSON body without a non-empty
\* `result` or whose first element lacks declination, inclination or
\* totalintensity, main.py's run ends with an error reported and no exception
\* escaped.
C4_MalformedBodyReported ==
    ( /\ variant = "main" /\ pc = "end"
      /\ response.kind = "response" /\ response.status = 200
      /\ response.body.json /\ Malformed(response.body) ) =>
        /\ exc = ""
        /\ \E i \in 1..Len(st_out) : IsError(st_out[i])

AfterLatSign == pc \notin {"idle", "convert_lat", "sign_lat"}

AfterLonSign == pc \notin {"idle", "convert_lat", "sign_lat", "convert_lon", "sign_lon"}

\* C5: in DMS mode the sign of the derived decimal matches the direction flag:
\* not positive for S and W, not negative for N and E.  (A zero result under S
\* or W is Python's -0.0, which carries the flag's sign; the model has one zero.)
C5_SignMatchesHemisphere ==
    InDmsRun =>
        /\ AfterLatSign =>
              /\ widgets.lat_dir = "S" => lat_decimal.val <= 0
              /\ widgets.lat_dir = "N" => lat_decimal.val >= 0
        /\ AfterLonSign =>
              /\ widgets.lon_dir = "W" => lon_decimal.val <= 0
              /\ widgets.lon_dir = "E" => lon_decimal.val >= 0

\* C6: in DMS mode the derived latitude is within [-90, 90] and the derived
\* longitude within [-180, 180].
C6_DecimalInRange ==
    InDmsRun =>
        /\ AfterLatSign => Abs(lat_decimal.val) <= itof(90)
        /\ AfterLonSign => Abs(lon_decimal.val) <= itof(180)

\* The printed number of millionths is within half a millionth of x.
PrintsMagnitudeOf(micro, x) ==
    LET ip == x \div Pow2(FracBits)
        fr == x % Pow2(FracBits)
    IN  /\ micro >= 0
        /\ Abs((micro - ip * 1000000) * Pow2(FracBits) - fr * 1000000)
              <= Pow2(FracBits - 1)

\* C7: format_lat_lon labels latitude N exactly when lat >= 0 (S otherwise) and
\* longitude E exactly when lon >= 0 (W otherwise), zero included, and prints
\* the absolute value to six decimals.
C7_FormatDirection ==
    (variant = "main" /\ formatted # <<>>) =>
        /\ formatted[1].dir = (IF lat_decimal.val >= 0 THEN "N" ELSE "S")
        /\ formatted[2].dir = (IF lon_decimal.val >= 0 THEN "E" ELSE "W")
        /\ lat_decimal.val = 0 => formatted[1].dir = "N"
        /\ lon_decimal.val = 0 => formatted[2].dir = "E"
        /\ PrintsMagnitudeOf(formatted[1].magnitude, Abs(lat_decimal.val))
        /\ PrintsMagnitudeOf(formatted[2].magnitude, Abs(lon_decimal.val))

C7_Witness ==
    /\ variant = "main" /\ pc = "button"
    /\ lat_decimal = Some(0) /\ lon_decimal = Some(0)
    /\ formatted # <<>>
    /\ formatted[1] = [magnitude |-> 0, dir |-> "N"]
    /\ formatted[2] = [magnitude |-> 0, dir |-> "E"]

\* C8: a run started by a press of the button issues exactly one requests.get,
\* whatever its outcome, and a run started otherwise issues none.
C8_OneCallPerPress ==
    /\ http_calls <= 1
    /\ pc = "end" => http_calls = (IF widgets.button THEN 1 ELSE 0)
    /\ pc \in {"raise_for_status", "response_json", "show_results"} => http_calls = 1

C8_Witness ==
    /\ pc = "end"
    /\ widgets.button
    /\ response.kind = "exception"
    /\ http_calls = 1

\* dms_to_decimal's result for the latitude widgets (pc = "sign_lat") or the
\* longitude widgets (pc = "sign_lon"), before the direction is applied.
Monotone(Less(_, _)) ==
    /\ (InDmsRun /\ pc = "sign_lat") =>
          /\ \A d \in LatDegInputs : d > widgets.lat_deg =>
                Less(lat_decimal.val, dms_to_decimal(d, widgets.lat_min, widgets.lat_sec))
          /\ \A m \in LatMinInputs : m > widgets.lat_min =>
                Less(lat_decimal.val, dms_to_decimal(widgets.lat_deg, m, widgets.lat_sec))
    /\ (InDmsRun /\ pc = "sign_lon") =>
          /\ \A d \in LonDegInputs : d > widgets.lon_deg =>
                Less(lon_decimal.val, dms_to_decimal(d, widgets.lon_min, widgets.lon_sec))
          /\ \A m \in LonMinInputs : m > widgets.lon_min =>
                Less(lon_decimal.val, dms_to_decimal(widgets.lon_deg, m, widgets.lon_sec))

MonotoneInSeconds(Less(_, _)) ==
    /\ (InDmsRun /\ pc = "sign_lat") =>
          \A s \in LatSecInputs : s > widgets.lat_sec =>
             Less(lat_decimal.val, dms_to_decimal(widgets.lat_deg, widgets.lat_min, s))
    /\ (InDmsRun /\ pc = "sign_lon") =>
          \A s \in LonSecInputs : s > widgets.lon_sec =>
             Less(lon_decimal.val, dms_to_decimal(widgets.lon_deg, widgets.lon_min, s))

StrictlyLess(x, y) == x < y

AtMost(x, y) == x <= y

\* C9 as stated: raising any one of degrees, minutes, seconds alone strictly
\* raises dms_to_decimal's result.
C9_StrictlyIncreasing ==
    Monotone(StrictlyLess) /\ MonotoneInSeconds(StrictlyLess)

\* C9 as amended: raising degrees or minutes alone strictly raises the result;
\* raising seconds alone never lowers it.
C9_NonDecreasing ==
    Monotone(StrictlyLess) /\ MonotoneInSeconds(AtMost)

\* A larger seconds value whose contribution is lost in the rounding.
C9_Witness ==
    /\ InDmsRun /\ pc = "sign_lat"
    /\ \E s \in LatSecInputs :
          /\ s > widgets.lat_sec
          /\ dms_to_decimal(widgets.lat_deg, widgets.lat_min, s) = lat_decimal.val

====
